---- MODULE Spec2Model ----
(***************************************************************************)
(* The six conversion scripts of EdgeTAM-iOS as one state machine.  A run   *)
(* is one invocation of one script: the script, the command line, the      *)
(* answer typed at the prompt and the checkpoint file are fixed when the   *)
(* run starts; every call into an external library returns, raises an      *)
(* Exception or is interrupted by the user (KeyboardInterrupt).            *)
(***************************************************************************)
EXTENDS Integers, Sequences, FiniteSets, TLC

VARIABLES
    script,      \* which script this run executes
    argv,        \* the command line: accepted, rejected by argparse, -h, or an empty checkpoint path
    response,    \* the answer typed at the confirmation prompt
    fileExists,  \* whether the checkpoint file exists
    ckptIsDict,  \* whether the object stored in the checkpoint is a dict
    ckptKeys,    \* the keys of that dict
    pc,          \* index of the next step of Program(script)
    exitStatus,  \* Running, or the exit status of the process
    log,         \* the steps executed so far, each with its outcome
    model,       \* what the model variable of the script holds
    dirs,        \* the directories created by this run
    files,       \* the model packages saved by this run
    metaFile,    \* model_info.json as written by this run
    printed,     \* the messages of interest printed by this run
    calls        \* the calls made to the adapter modules, with inputs and outputs

vars == <<script, argv, response, fileExists, ckptIsDict, ckptKeys,
          pc, exitStatus, log, model, dirs, files, metaFile, printed, calls>>

env == <<script, argv, response, fileExists, ckptIsDict, ckptKeys>>

----------------------------------------------------------------------------
(* Exit statuses *)

Running == -1
ExitOk == 0
ExitFail == 1
ExitUsage == 2
ExitSigint == 130

Scripts == {"convert_edgetam_checkpoint", "edgetam_coreml_export",
            "convert_edgetam_to_coreml", "export_to_coreml",
            "quick_setup_model", "create_simple_model"}

Argvs == {"ok", "empty_ckpt", "bad", "help"}
Responses == {"y", "Y", "n", "yes", ""}
CkptKeyNames == {"model", "state_dict"}
Outcomes == {"ok", "exc", "int"}

\* Lower that leaves the answer as typed
LowerIdentity(s) == s

\* str.lower() on the answers of Responses
Lower(s) == IF s = "Y" THEN "y" ELSE s

----------------------------------------------------------------------------
(* The straight-line step sequence of each script *)

S(kind) == [k |-> kind, c |-> "model"]
SC(kind, comp) == [k |-> kind, c |-> comp]

\* ExportComponent with the converter called before the tracer
ExportComponentConvertFirst(comp) == <<SC("convert", comp), SC("trace", comp), SC("save", comp)>>

\* ExportComponent with the converter called twice
ExportComponentConvertTwice(comp) ==
    <<SC("trace", comp), SC("convert", comp), SC("convert", comp), SC("save", comp)>>

ExportComponent(comp) == <<SC("trace", comp), SC("convert", comp), SC("save", comp)>>

Program(s) ==
    CASE s = "convert_edgetam_checkpoint" ->
            <<S("import"), S("prompt"), S("check_exists"), S("getsize"),
              S("load_checkpoint"), S("load_pretrained"), S("trace"),
              S("convert"), S("save"), S("sizewalk"), S("verify"), S("banner")>>
      [] s = "edgetam_coreml_export" ->
            <<S("import"), S("parse_args"), S("check_exists"),
              S("load_checkpoint"), S("extract"), S("eval"), S("trace"),
              S("convert"), S("save"), S("verify"), S("banner")>>
      [] s = "convert_edgetam_to_coreml" ->
            <<S("import"), S("parse_args"), S("check_deps"), S("check_exists"),
              S("load_checkpoint"), S("trace"), S("convert"), S("save"),
              S("verify"), S("banner")>>
      [] s = "export_to_coreml" ->
            <<S("import"), S("parse_args"), S("makedirs"), S("instantiate"),
              S("load_checkpoint"), S("to_eval")>>
            \o ExportComponent("image_encoder")
            \o ExportComponent("prompt_encoder")
            \o ExportComponent("mask_decoder")
            \o <<S("write_meta"), S("banner")>>
      [] s = "quick_setup_model" ->
            <<S("import"), S("load_pretrained"), S("trace"), S("convert"),
              S("save"), S("verify"), S("banner")>>
      [] s = "create_simple_model" ->
            <<S("import"), S("create_model"), S("trace"), S("convert"),
              S("save"), S("sizewalk"), S("banner")>>

Cur == Program(script)[pc]

IsRunning == exitStatus = Running /\ pc <= Len(Program(script))

----------------------------------------------------------------------------
(* Exception handling *)

\* CatchesInterrupt of a script whose handlers name Exception only
CatchesInterruptNever(s, kind) == FALSE

\* The except KeyboardInterrupt clauses: only two scripts have one, around main()
CatchesInterrupt(s, kind) ==
    /\ s \in {"convert_edgetam_checkpoint", "quick_setup_model"}
    /\ kind # "import"

\* Swallows with the save step's handler carrying on as well
SwallowsSave(s, kind) == kind \in {"verify", "save"}

\* Swallows with the checkpoint loader's handler carrying on as well
SwallowsLoad(s, kind) == kind \in {"verify", "load_checkpoint"}

\* Swallows with the converter's handler carrying on as well
SwallowsConvert(s, kind) == kind \in {"verify", "convert"}

\* Swallows with every handler carrying on
SwallowsAll(s, kind) == TRUE

\* The except Exception clauses that print and carry on instead of exiting
Swallows(s, kind) == kind = "verify"

InterruptStatus(s, kind) == IF CatchesInterrupt(s, kind) THEN ExitFail ELSE ExitSigint

Advance == pc' = pc + 1 /\ exitStatus' = exitStatus
\* Exit that stops executing steps without ending the process
ExitHangs(n) == pc' = Len(Program(script)) + 1 /\ exitStatus' = exitStatus

Exit(n) == pc' = pc /\ exitStatus' = n

\* What the script does with the outcome o of the call made by the current step
Return(o) ==
    CASE o = "ok"  -> Advance
      [] o = "exc" -> IF Swallows(script, Cur.k) THEN Advance ELSE Exit(ExitFail)
      [] o = "int" -> Exit(InterruptStatus(script, Cur.k))

\* what the script prints for the outcome o of a step: the message of the
\* except KeyboardInterrupt clause, of the declined prompt, of a failed
\* verification, and the success banner
Messages(s, kind, o) ==
    CASE o = "int" /\ CatchesInterrupt(s, kind) -> {"cancelled by user"}
      [] o = "declined"                         -> {"Conversion cancelled"}
      [] o = "exc" /\ kind = "verify"           -> {"Verification failed"}
      [] kind = "banner"                        -> {"completed successfully"}
      [] OTHER                                  -> {}

Record(o) ==
    /\ log' = Append(log, [k |-> Cur.k, c |-> Cur.c, r |-> o])
    /\ printed' = printed \cup Messages(script, Cur.k, o)

Step(kind) == IsRunning /\ Cur.k = kind

----------------------------------------------------------------------------
(* Paths and file names *)

Join(dir, name) == <<dir, name>>
Basename(path) == path[2]

OutputDir == "coreml_models"

Components == {"image_encoder", "prompt_encoder", "mask_decoder"}

\* the file names passed to the three export_* functions
ComponentFile(comp) ==
    CASE comp = "image_encoder"  -> "edgetam_image_encoder.mlpackage"
      [] comp = "prompt_encoder" -> "edgetam_prompt_encoder.mlpackage"
      [] comp = "mask_decoder"   -> "edgetam_mask_decoder.mlpackage"

\* Metadata with the mask decoder listed under another file name
MetadataRenamed ==
    { <<"image_encoder", "edgetam_image_encoder.mlpackage">>,
      <<"prompt_encoder", "edgetam_prompt_encoder.mlpackage">>,
      <<"mask_decoder", "edgetam_decoder.mlpackage">> }

\* the "components" mapping of the metadata dictionary
Metadata ==
    { <<"image_encoder", "edgetam_image_encoder.mlpackage">>,
      <<"prompt_encoder", "edgetam_prompt_encoder.mlpackage">>,
      <<"mask_decoder", "edgetam_mask_decoder.mlpackage">> }

OutputPath(s, comp) ==
    CASE s = "export_to_coreml" -> Join(OutputDir, ComponentFile(comp))
      [] s \in {"convert_edgetam_checkpoint", "create_simple_model"} ->
            Join("EdgeTAM-iOS/EdgeTAM-iOS", "EdgeTAM.mlpackage")
      [] OTHER -> Join(".", "EdgeTAM.mlpackage")

\* CheckpointShape with the 'state_dict' key tested before the 'model' key
CheckpointShapeStateDictFirst(isDict, keys) ==
    IF isDict
    THEN IF "state_dict" \in keys THEN "state_dict"
         ELSE IF "model" \in keys THEN "model"
         ELSE "unexpected"
    ELSE "object"

\* which branch of the checkpoint-shape test of edgetam_coreml_export.main is taken
CheckpointShape(isDict, keys) ==
    IF isDict
    THEN IF "model" \in keys THEN "model"
         ELSE IF "state_dict" \in keys THEN "state_dict"
         ELSE "unexpected"
    ELSE "object"

\* what the model variable holds after a successful checkpoint load
LoadedModel(s, m) ==
    CASE s \in {"convert_edgetam_to_coreml", "export_to_coreml"} -> "checkpoint"
      [] OTHER -> m

----------------------------------------------------------------------------
Init ==
    /\ script \in Scripts
    /\ argv \in Argvs
    /\ response \in Responses
    /\ fileExists \in BOOLEAN
    /\ ckptIsDict \in BOOLEAN
    /\ ckptKeys \in SUBSET CkptKeyNames
    /\ (~ckptIsDict => ckptKeys = {})
    /\ (argv = "empty_ckpt" => ~fileExists)
    /\ pc = 1
    /\ exitStatus = Running
    /\ log = <<>>
    /\ model = "none"
    /\ dirs = {}
    /\ files = {}
    /\ metaFile = [state |-> "absent", components |-> {}]
    /\ printed = {}
    /\ calls = <<>>

\* The import statements at the top of the script
Import ==
    /\ Step("import")
    /\ \E o \in Outcomes : Record(o) /\ Return(o)
    /\ UNCHANGED <<env, calls, model, dirs, files, metaFile>>

\* parser.parse_args(): argparse exits by itself on -h and on a usage error
ParseArgs ==
    /\ Step("parse_args")
    /\ CASE argv = "help" -> Record("help") /\ Exit(ExitOk)
         [] argv = "bad"  -> Record("usage") /\ Exit(ExitUsage)
         [] OTHER         -> Record("ok") /\ Advance
    /\ UNCHANGED <<env, calls, model, dirs, files, metaFile>>

\* response = input(...); anything but y/Y cancels with status 0
Prompt ==
    /\ Step("prompt")
    /\ \E o \in Outcomes :
          IF o = "ok" /\ Lower(response) # "y"
          THEN Record("declined") /\ Exit(ExitOk)
          ELSE Record(o) /\ Return(o)
    /\ UNCHANGED <<env, calls, model, dirs, files, metaFile>>

\* check_segment_anything(): False makes main call sys.exit(1)
CheckDeps ==
    /\ Step("check_deps")
    /\ \E o \in Outcomes : Record(o) /\ Return(o)
    /\ UNCHANGED <<env, calls, model, dirs, files, metaFile>>

\* os.makedirs(args.output_dir, exist_ok=True), outside any try
Makedirs ==
    /\ Step("makedirs")
    /\ \E o \in Outcomes :
          /\ Record(o) /\ Return(o)
          /\ dirs' = IF o = "ok" THEN dirs \cup {OutputDir} ELSE dirs
    /\ UNCHANGED <<env, calls, model, files, metaFile>>

\* CheckExists that reports a missing checkpoint and carries on
CheckExistsCarriesOn ==
    /\ Step("check_exists")
    /\ Record(IF fileExists THEN "ok" ELSE "missing")
    /\ Advance
    /\ UNCHANGED <<env, calls, model, dirs, files, metaFile>>

\* if not os.path.exists(checkpoint_path): sys.exit(1) or raise FileNotFoundError
CheckExists ==
    /\ Step("check_exists")
    /\ IF fileExists
       THEN Record("ok") /\ Advance
       ELSE Record("missing") /\ Exit(ExitFail)
    /\ UNCHANGED <<env, calls, model, dirs, files, metaFile>>

\* os.path.getsize(CHECKPOINT_PATH)
GetSize ==
    /\ Step("getsize")
    /\ \E o \in Outcomes : Record(o) /\ Return(o)
    /\ UNCHANGED <<env, calls, model, dirs, files, metaFile>>

\* torch.load / sam_model_registry[...](checkpoint=...) / _load_checkpoint;
\* export_to_coreml.py skips the call when the checkpoint argument is empty
LoadCheckpoint ==
    /\ Step("load_checkpoint")
    /\ IF script = "export_to_coreml" /\ argv = "empty_ckpt"
       THEN Record("skipped") /\ Advance /\ UNCHANGED model
       ELSE \E o \in Outcomes :
              /\ o = "ok" => fileExists
              /\ Record(o) /\ Return(o)
              /\ model' = IF o = "ok" THEN LoadedModel(script, model) ELSE model
    /\ UNCHANGED <<env, calls, dirs, files, metaFile>>

\* the isinstance(checkpoint, dict) / 'model' / 'state_dict' branches
ExtractModel ==
    /\ Step("extract")
    /\ LET shape == CheckpointShape(ckptIsDict, ckptKeys) IN
         /\ Record(shape)
         /\ IF shape \in {"object", "model"}
            THEN Advance /\ model' = "checkpoint"
            ELSE Exit(ExitFail) /\ UNCHANGED model
    /\ UNCHANGED <<env, calls, dirs, files, metaFile>>

\* model.eval() at the start of export_to_coreml
EvalModel ==
    /\ Step("eval")
    /\ \E o \in Outcomes : Record(o) /\ Return(o)
    /\ UNCHANGED <<env, calls, model, dirs, files, metaFile>>

\* GlobalHydra clear, initialize_config_dir, compose, instantiate(cfg.model)
Instantiate ==
    /\ Step("instantiate")
    /\ \E o \in Outcomes :
          /\ Record(o) /\ Return(o)
          /\ model' = IF o = "ok" THEN "config" ELSE model
    /\ UNCHANGED <<env, calls, dirs, files, metaFile>>

\* model.to(device); model.eval()
ToEval ==
    /\ Step("to_eval")
    /\ \E o \in Outcomes : Record(o) /\ Return(o)
    /\ UNCHANGED <<env, calls, model, dirs, files, metaFile>>

\* LoadPretrained that keeps the model stored in the checkpoint when there is one
LoadPretrainedUnlessInCheckpoint ==
    /\ Step("load_pretrained")
    /\ \E o \in Outcomes :
          /\ Record(o) /\ Return(o)
          /\ model' = IF o # "ok" THEN model
                       ELSE IF ckptIsDict /\ "model" \in ckptKeys THEN "checkpoint"
                       ELSE "pretrained"
    /\ UNCHANGED <<env, calls, dirs, files, metaFile>>

\* torchvision deeplabv3_mobilenet_v3_large(weights=DEFAULT); model.eval()
LoadPretrained ==
    /\ Step("load_pretrained")
    /\ \E o \in Outcomes :
          /\ Record(o) /\ Return(o)
          /\ model' = IF o = "ok" THEN "pretrained" ELSE model
    /\ UNCHANGED <<env, calls, dirs, files, metaFile>>

\* SimpleSegmentationModel(); model.eval()
CreateModel ==
    /\ Step("create_model")
    /\ \E o \in Outcomes :
          /\ Record(o) /\ Return(o)
          /\ model' = IF o = "ok" THEN "random" ELSE model
    /\ UNCHANGED <<env, calls, dirs, files, metaFile>>

\* torch.jit.trace
Trace ==
    /\ Step("trace")
    /\ \E o \in Outcomes : Record(o) /\ Return(o)
    /\ UNCHANGED <<env, calls, model, dirs, files, metaFile>>

\* ct.convert and the metadata assignments on its result
Convert ==
    /\ Step("convert")
    /\ \E o \in Outcomes : Record(o) /\ Return(o)
    /\ UNCHANGED <<env, calls, model, dirs, files, metaFile>>

\* Save that removes the packages saved so far when it fails
SaveRollsBack ==
    /\ Step("save")
    /\ \E o \in Outcomes :
          /\ Record(o) /\ Return(o)
          /\ files' = IF o = "ok" THEN files \cup {OutputPath(script, Cur.c)} ELSE {}
    /\ UNCHANGED <<env, calls, model, dirs, metaFile>>

\* mlmodel.save(output_path)
Save ==
    /\ Step("save")
    /\ \E o \in Outcomes :
          /\ Record(o) /\ Return(o)
          /\ files' = IF o = "ok" THEN files \cup {OutputPath(script, Cur.c)} ELSE files
    /\ UNCHANGED <<env, calls, model, dirs, metaFile>>

\* the os.walk / os.path.getsize loop over the saved package
SizeWalk ==
    /\ Step("sizewalk")
    /\ \E o \in Outcomes : Record(o) /\ Return(o)
    /\ UNCHANGED <<env, calls, model, dirs, files, metaFile>>

\* verify_model / verify_coreml_model / Step 6 of quick_setup_model
Verify ==
    /\ Step("verify")
    /\ \E o \in Outcomes : Record(o) /\ Return(o)
    /\ UNCHANGED <<env, calls, model, dirs, files, metaFile>>

\* with open(model_info.json, "w") as f: json.dump(metadata, f)
WriteMeta ==
    /\ Step("write_meta")
    /\ \E o \in Outcomes :
          /\ Record(o) /\ Return(o)
          /\ IF o = "ok"
             THEN metaFile' = [state |-> "written", components |-> Metadata]
             ELSE \E st \in {"absent", "partial"} :
                    metaFile' = [state |-> st, components |-> {}]
    /\ UNCHANGED <<env, calls, model, dirs, files>>

\* the success banner and the rest of main; the process then ends with status 0
Banner ==
    /\ Step("banner")
    /\ Record("ok")
    /\ Exit(ExitOk)
    /\ UNCHANGED <<env, calls, model, dirs, files, metaFile>>

Next ==
    \/ Import
    \/ ParseArgs
    \/ Prompt
    \/ CheckDeps
    \/ Makedirs
    \/ CheckExists
    \/ GetSize
    \/ LoadCheckpoint
    \/ ExtractModel
    \/ EvalModel
    \/ Instantiate
    \/ ToEval
    \/ LoadPretrained
    \/ CreateModel
    \/ Trace
    \/ Convert
    \/ Save
    \/ SizeWalk
    \/ Verify
    \/ WriteMeta
    \/ Banner

Spec == Init /\ [][Next]_vars
FairSpec == Spec /\ WF_vars(Next)

----------------------------------------------------------------------------
(* The adapter modules of export_to_coreml.py, as functions of their inputs. *)
(* A tensor is a shape and a term naming its contents; the wrapped model's   *)
(* own submodules are external and return terms built from their arguments. *)

MaxCalls == 2
MaxLevels == 4
MaxMasks == 3
BatchSizes == {1, 2}
PointCoords == {"points_a", "points_b"}
PointLabels == {"labels_a"}
Boxes == {"boxes_a", "boxes_b"}
MaskInputs == {"mask_a", "mask_b"}
ImageEmbeddings == {"embeddings_a"}
ImagePes == {"pe_a", "pe_b"}

\* multimask_output[0] in tenths: 0.0, 0.5, 0.6 and 1.0 (True)
MultimaskValues == {0, 5, 6, 10}
MultimaskThreshold == 5
ExampleMultimaskOutput == 10

Tensor(shape, data) == [shape |-> shape, data |-> data]

\* the feature levels a backbone returns for a batch of bs images
FpnLevel(bs, l) ==
    CASE l = 1 -> Tensor(<<bs, 32, 256, 256>>, <<"fpn", 0>>)
      [] l = 2 -> Tensor(<<bs, 64, 128, 128>>, <<"fpn", 1>>)
      [] l = 3 -> Tensor(<<bs, 256, 64, 64>>, <<"fpn", 2>>)
      [] OTHER -> Tensor(<<bs, 256, 32, 32>>, <<"fpn", l - 1>>)

\* tensor.flatten(2)
Flatten2(sh) == <<sh[1], sh[2], sh[3] * sh[4]>>

\* tensor.permute(perm), perm counted from 0
Permute(sh, perm) == [i \in 1..Len(perm) |-> sh[perm[i] + 1]]

\* tensor.view(B, C, H, W)
View(sh, B, C, H, W) == <<B, C, H, W>>

\* vision_features with no_mem_embed added over the flattened positions
AddNoMemEmbed(t) ==
    LET flat  == Permute(Flatten2(t.shape), <<2, 0, 1>>)
        back  == Permute(flat, <<1, 2, 0>>)
    IN  Tensor(View(back, t.shape[1], t.shape[2], t.shape[3], t.shape[4]),
               <<"plus_no_mem_embed", t.data[2]>>)

Zeros(shape) == Tensor(shape, <<"zeros", 0>>)

\* backbone_out.get("backbone_fpn", [])
BackboneFpn(backbone_out) ==
    IF backbone_out.hasKey THEN backbone_out.fpn ELSE <<>>

\* EdgeTAMImageEncoderForward that takes the feature levels only beyond three
EdgeTAMImageEncoderForwardBeyondThree(in) ==
    LET backbone_fpn == BackboneFpn(in.backbone_out) IN
    IF Len(backbone_fpn) > 3
    THEN << IF in.directly_add_no_mem_embed THEN AddNoMemEmbed(backbone_fpn[3])
                                            ELSE backbone_fpn[3],
            backbone_fpn[1], backbone_fpn[2] >>
    ELSE << Zeros(<<in.bs, 256, 64, 64>>), Zeros(<<in.bs, 32, 256, 256>>),
            Zeros(<<in.bs, 64, 128, 128>>) >>

\* EdgeTAMImageEncoder.forward: <<vision_features, high_res_feat_0, high_res_feat_1>>
EdgeTAMImageEncoderForward(in) ==
    LET backbone_fpn == BackboneFpn(in.backbone_out) IN
    IF Len(backbone_fpn) >= 3
    THEN << IF in.directly_add_no_mem_embed THEN AddNoMemEmbed(backbone_fpn[3])
                                            ELSE backbone_fpn[3],
            backbone_fpn[1], backbone_fpn[2] >>
    ELSE << Zeros(<<in.bs, 256, 64, 64>>), Zeros(<<in.bs, 32, 256, 256>>),
            Zeros(<<in.bs, 64, 128, 128>>) >>

\* the wrapped model's sam_prompt_encoder(points, boxes, masks)
SamPromptEncoder(points, boxes, masks) ==
    [sparse |-> <<"sparse", points[1], points[2], boxes, masks>>,
     dense  |-> <<"dense", points[1], points[2], boxes, masks>>]

\* EdgeTAMPromptEncoderForward that hands the boxes on to the prompt encoder
EdgeTAMPromptEncoderForwardWithBoxes(in) ==
    SamPromptEncoder(<<in.point_coords, in.point_labels>>, in.boxes, "None")

\* EdgeTAMPromptEncoder.forward
EdgeTAMPromptEncoderForward(in) ==
    SamPromptEncoder(<<in.point_coords, in.point_labels>>, "None", "None")

\* multimask_output[0].item() > 0.5 that lets 0.5 through
UseMultimaskFromHalf(v) == v >= MultimaskThreshold

\* multimask_output[0].item() > 0.5
UseMultimask(v) == v > MultimaskThreshold

PyBool(b) == IF b THEN "True" ELSE "False"

\* the wrapped model's sam_mask_decoder(...): n mask channels and n scores
SamMaskDecoder(image_embeddings, image_pe, sparse, dense, multimask, repeat_image, high_res, n) ==
    LET src == <<image_embeddings, image_pe, sparse, dense, PyBool(multimask),
                 PyBool(repeat_image), high_res[1], high_res[2]>>
    IN  [masks    |-> [channels |-> [i \in 1..n |-> i], src |-> src],
         iou_pred |-> [channels |-> [i \in 1..n |-> i], src |-> src]]

\* t[:, 0:1]
FirstChannel(t) == [t EXCEPT !.channels = SubSeq(t.channels, 1, 1)]

\* sam_prompt_encoder.get_dense_pe()
DensePe == "dense_pe"

\* the body of EdgeTAMMaskDecoder.forward once use_multimask is known
MaskDecoderBody(use_multimask, in) ==
    LET sam_outputs == SamMaskDecoder(in.image_embeddings, DensePe,
                                      in.sparse_prompt_embeddings,
                                      in.dense_prompt_embeddings,
                                      use_multimask, FALSE,
                                      <<in.high_res_feat_0, in.high_res_feat_1>>,
                                      in.nmasks)
    IN  IF ~use_multimask
        THEN [masks |-> FirstChannel(sam_outputs.masks),
              iou_pred |-> FirstChannel(sam_outputs.iou_pred)]
        ELSE [masks |-> sam_outputs.masks, iou_pred |-> sam_outputs.iou_pred]

\* EdgeTAMMaskDecoder.forward
EdgeTAMMaskDecoderForward(in) ==
    MaskDecoderBody(UseMultimask(in.multimask_output), in)

\* the graph torch.jit.trace records in export_mask_decoder: the Python value
\* of use_multimask and the branch taken on it are those of the example input
ExportedMaskDecoder(in) ==
    MaskDecoderBody(UseMultimask(ExampleMultimaskOutput), in)

ImageEncoderInputs ==
    { [backbone_out |-> [hasKey |-> h, fpn |-> [l \in 1..n |-> FpnLevel(bs, l)]],
       directly_add_no_mem_embed |-> f, bs |-> bs] :
         h \in BOOLEAN, n \in 0..MaxLevels, f \in BOOLEAN, bs \in BatchSizes }

PromptEncoderInputs ==
    [point_coords : PointCoords, point_labels : PointLabels,
     boxes : Boxes, mask_input : MaskInputs]

MaskDecoderInputs ==
    [image_embeddings : ImageEmbeddings, image_pe : ImagePes,
     sparse_prompt_embeddings : {"sparse_a"}, dense_prompt_embeddings : {"dense_a"},
     high_res_feat_0 : {"high_res_0"}, high_res_feat_1 : {"high_res_1"},
     multimask_output : MultimaskValues, nmasks : 1..MaxMasks]

run == <<env, pc, exitStatus, log, model, dirs, files, metaFile, printed>>

Call(fn, in, out) ==
    /\ Len(calls) < MaxCalls
    /\ calls' = Append(calls, [fn |-> fn, in |-> in, out |-> out])
    /\ UNCHANGED run

ForwardImageEncoder ==
    \E in \in ImageEncoderInputs :
        (in.backbone_out.hasKey \/ in.backbone_out.fpn = <<>>)
        /\ Call("image_encoder", in, EdgeTAMImageEncoderForward(in))

ForwardPromptEncoder ==
    \E in \in PromptEncoderInputs :
        Call("prompt_encoder", in, EdgeTAMPromptEncoderForward(in))

ForwardMaskDecoder ==
    \E in \in MaskDecoderInputs :
        Call("mask_decoder", in, EdgeTAMMaskDecoderForward(in))

\* a prediction of the saved mask decoder package
PredictMaskDecoder ==
    \E in \in MaskDecoderInputs :
        Call("mask_decoder_package", in, ExportedMaskDecoder(in))

AdapterInit ==
    /\ script = "export_to_coreml"
    /\ argv = "ok"
    /\ response = ""
    /\ fileExists = TRUE
    /\ ckptIsDict = FALSE
    /\ ckptKeys = {}
    /\ pc = 1
    /\ exitStatus = Running
    /\ log = <<>>
    /\ model = "none"
    /\ dirs = {}
    /\ files = {}
    /\ metaFile = [state |-> "absent", components |-> {}]
    /\ printed = {}
    /\ calls = <<>>

AdapterNext ==
    \/ ForwardImageEncoder
    \/ ForwardPromptEncoder
    \/ ForwardMaskDecoder
    \/ PredictMaskDecoder

AdapterSpec == AdapterInit /\ [][AdapterNext]_vars

----------------------------------------------------------------------------
(* Vocabulary of the properties *)

Done == exitStatus # Running

\* the step kind was executed with the given outcome
Has(kind, res) == \E i \in DOMAIN log : log[i].k = kind /\ log[i].r = res

\* the external call of the step kind was made, whatever its outcome
Invoked(kind) == \E i \in DOMAIN log : log[i].k = kind /\ log[i].r \in Outcomes

\* the step kind was executed
Reached(kind) == \E i \in DOMAIN log : log[i].k = kind

Count(kind) == Cardinality({i \in DOMAIN log : log[i].k = kind /\ log[i].r \in Outcomes})

Interrupted == \E i \in DOMAIN log : log[i].r = "int"

ExceptionRaised == \E i \in DOMAIN log : log[i].r = "exc"

LastIs(kind, res) == log # <<>> /\ log[Len(log)].k = kind /\ log[Len(log)].r = res

\* the save steps of the script, one per output package
SaveSteps(s) == {i \in DOMAIN Program(s) : Program(s)[i].k = "save"}

AllSaved ==
    /\ \A n \in SaveSteps(script) :
          \E i \in DOMAIN log : log[i] = [k |-> "save", c |-> Program(script)[n].c, r |-> "ok"]
    /\ \A n \in SaveSteps(script) : OutputPath(script, Program(script)[n].c) \in files

----------------------------------------------------------------------------
\* C1: every run ends with exit status 0 or 1, and with 1 whenever an
\* exception was raised, also when the command line is missing or invalid
\* (runs interrupted by the user are left aside).
C1_ExitZeroOrOne ==
    (Done /\ ~Interrupted) =>
        /\ exitStatus \in {ExitOk, ExitFail}
        /\ (ExceptionRaised => exitStatus = ExitFail)

\* C2: a step whose call raised an exception is the last step of the run and
\* the run ends there with a nonzero exit status.
C2_NoFailureSwallowed ==
    \A i \in DOMAIN log :
        log[i].r = "exc" => (i = Len(log) /\ exitStatus \notin {Running, ExitOk})

\* C3 as stated: exit status 0 implies that the save step ran and returned.
C3_ExitZeroImpliesSaved ==
    exitStatus = ExitOk => Has("save", "ok")

\* C3 amended: exit status 0 implies that every save step of the script ran
\* and returned, unless the run was ended by -h or by declining the prompt.
C3_ExitZeroImpliesSavedOrCancelled ==
    exitStatus = ExitOk =>
        \/ AllSaved
        \/ LastIs("parse_args", "help")
        \/ LastIs("prompt", "declined")

C3_Witness ==
    /\ exitStatus = ExitOk
    /\ script = "export_to_coreml"
    /\ AllSaved

----------------------------------------------------------------------------
\* the position of a step kind in the order parse, load, trace, convert, save, verify
Rank(kind) ==
    CASE kind = "parse_args"      -> 1
      [] kind = "load_checkpoint" -> 2
      [] kind = "trace"           -> 3
      [] kind = "convert"         -> 4
      [] kind = "save"            -> 5
      [] kind = "verify"          -> 6
      [] OTHER                    -> 0

Ranked == {i \in DOMAIN log : Rank(log[i].k) > 0}

\* two steps work on the same output package, or one of them on the whole run
SamePackage(i, j) == log[i].c = log[j].c \/ "model" \in {log[i].c, log[j].c}

\* the step kind returned for the package of step j before step j started
ReturnedBefore(kind, j) ==
    \E i \in 1..(j - 1) : log[i] = [k |-> kind, c |-> log[j].c, r |-> "ok"]

\* C4 as stated: the steps of a run occur in the one order parse, load, trace,
\* convert, save, verify.
C4_FixedOrder ==
    \A i, j \in Ranked : i < j => Rank(log[i].k) <= Rank(log[j].k)

\* C4 amended: the order holds for the steps of each output package, and a
\* package is converted only after its trace returned, saved only after its
\* conversion returned and verified only after its save returned.
C4_FixedOrderPerPackage ==
    /\ \A i, j \in Ranked :
          (i < j /\ SamePackage(i, j)) => Rank(log[i].k) < Rank(log[j].k)
    /\ \A j \in DOMAIN log :
          /\ log[j].k = "convert" => ReturnedBefore("trace", j)
          /\ log[j].k = "save" => ReturnedBefore("convert", j)
          /\ log[j].k = "verify" => ReturnedBefore("save", j)

C4_Witness ==
    /\ script = "export_to_coreml"
    /\ Has("parse_args", "ok")
    /\ \E j \in DOMAIN log : log[j] = [k |-> "save", c |-> "mask_decoder", r |-> "ok"]

\* C5 as stated: one run loads the checkpoint at most once, invokes the
\* converter at most once and writes at most one output artifact.
C5_AtMostOnce ==
    /\ Count("load_checkpoint") <= 1
    /\ Count("convert") <= 1
    /\ Count("save") + Count("write_meta") <= 1

CountFor(kind, comp) ==
    Cardinality({i \in DOMAIN log : log[i].k = kind /\ log[i].c = comp /\ log[i].r \in Outcomes})

\* C5 amended: one run loads the checkpoint at most once, and invokes the
\* converter and the save at most once for each output package (three
\* packages in export_to_coreml.py, one elsewhere) and writes the metadata
\* file at most once.
C5_AtMostOncePerPackage ==
    /\ Count("load_checkpoint") <= 1
    /\ \A c \in Components \cup {"model"} :
          CountFor("convert", c) <= 1 /\ CountFor("save", c) <= 1
    /\ Count("convert") <= Cardinality(SaveSteps(script))
    /\ Count("write_meta") <= 1

C5_Witness ==
    /\ script = "export_to_coreml"
    /\ Count("load_checkpoint") = 1
    /\ Count("convert") = 3
    /\ Count("save") = 3
    /\ Count("write_meta") = 1

\* a checkpoint load returned before step j started
LoadedBefore(j) ==
    \E i \in 1..(j - 1) : log[i].k = "load_checkpoint" /\ log[i].r = "ok"

\* C6 as stated: in every script a convert step is preceded by a checkpoint load.
C6_ConvertAfterLoad ==
    \A j \in DOMAIN log : log[j].k = "convert" => LoadedBefore(j)

\* the runs that are given a checkpoint to load
LoadsCheckpoint ==
    /\ script \in {"convert_edgetam_checkpoint", "edgetam_coreml_export",
                   "convert_edgetam_to_coreml", "export_to_coreml"}
    /\ ~(script = "export_to_coreml" /\ argv = "empty_ckpt")

\* C6 amended: a convert step is preceded by a checkpoint load in the four
\* scripts that take a checkpoint (in export_to_coreml.py when the checkpoint
\* argument is not empty); the other runs never load a checkpoint.
C6_ConvertAfterLoadWhereLoaded ==
    IF LoadsCheckpoint
    THEN \A j \in DOMAIN log : log[j].k = "convert" => LoadedBefore(j)
    ELSE ~Invoked("load_checkpoint")

C6_Witness ==
    /\ script = "convert_edgetam_checkpoint"
    /\ Has("load_checkpoint", "ok")
    /\ Invoked("convert")

\* C7: every run eventually ends.
C7_Terminates == <>Done

C7_Witness ==
    /\ exitStatus = ExitOk
    /\ pc = Len(Program(script))
    /\ LastIs("banner", "ok")

----------------------------------------------------------------------------
\* export_to_coreml(model, ...) of edgetam_coreml_export.py was called
ExportAttempted == \E i \in DOMAIN log : log[i].k = "eval"

\* C8: in edgetam_coreml_export.py, once the checkpoint is loaded, the export
\* is attempted exactly when the checkpoint is not a dict or is a dict with
\* the key 'model'; otherwise the run exits with status 1 and nothing is
\* traced, converted or written.
C8_ExportIffModel ==
    (script = "edgetam_coreml_export" /\ Done /\ Has("load_checkpoint", "ok")) =>
        /\ ExportAttempted <=> (~ckptIsDict \/ "model" \in ckptKeys)
        /\ ~ExportAttempted =>
              /\ exitStatus = ExitFail
              /\ ~Invoked("trace") /\ ~Invoked("convert") /\ ~Invoked("save")
              /\ files = {}

C8_Witness ==
    /\ script = "edgetam_coreml_export"
    /\ Done
    /\ ckptIsDict /\ ckptKeys = {"model", "state_dict"}
    /\ ExportAttempted
    /\ Has("save", "ok")

ChecksCheckpoint ==
    script \in {"convert_edgetam_checkpoint", "edgetam_coreml_export",
                "convert_edgetam_to_coreml"}

NothingInvoked ==
    /\ ~Invoked("load_checkpoint") /\ ~Invoked("trace")
    /\ ~Invoked("convert") /\ ~Invoked("save")
    /\ files = {}

\* C9 as stated: in the three scripts that test the checkpoint path, a missing
\* checkpoint file makes the run end with exit status 1, and the loader, the
\* tracer, the converter and the save are never invoked (runs interrupted by
\* the user are left aside).
C9_MissingCheckpointExitsOne ==
    (ChecksCheckpoint /\ ~fileExists /\ ~Interrupted) =>
        /\ NothingInvoked
        /\ Done => exitStatus = ExitFail

\* C9 amended: with a missing checkpoint file the loader, the tracer, the
\* converter and the save are never invoked, and a run that reaches the
\* existence test ends there with exit status 1.
C9_MissingCheckpointNothingInvoked ==
    (ChecksCheckpoint /\ ~fileExists) =>
        /\ NothingInvoked
        /\ Reached("check_exists") =>
              LastIs("check_exists", "missing") /\ exitStatus = ExitFail

C9_Witness ==
    /\ ChecksCheckpoint
    /\ ~fileExists
    /\ LastIs("check_exists", "missing")
    /\ exitStatus = ExitFail

----------------------------------------------------------------------------
AllComponentsSaved ==
    \A c \in Components :
        /\ \E i \in DOMAIN log : log[i] = [k |-> "save", c |-> c, r |-> "ok"]
        /\ OutputPath("export_to_coreml", c) \in files

\* the listed file names are those of the packages saved in the output directory
NamesMatchSaved ==
    /\ { m[1] : m \in metaFile.components } = Components
    /\ \A m \in metaFile.components :
          /\ Join(OutputDir, m[2]) \in files
          /\ m[2] = Basename(OutputPath("export_to_coreml", m[1]))
    /\ { m[2] : m \in metaFile.components } = { Basename(f) : f \in files }

\* C10 as stated: model_info.json is written if and only if the three
\* component packages were saved, and it lists the names they were saved under.
C10_MetadataIffAllSaved ==
    (script = "export_to_coreml" /\ Done) =>
        /\ metaFile.state = "written" <=> AllComponentsSaved
        /\ metaFile.state = "written" => NamesMatchSaved

\* C10 amended: model_info.json is written only if the three component
\* packages were saved, its write is attempted in every finished run that
\* saved all three, and once written it lists the names they were saved under.
C10_MetadataOnlyIfAllSaved ==
    script = "export_to_coreml" =>
        /\ (metaFile.state # "absent" \/ Invoked("write_meta")) => AllComponentsSaved
        /\ (Done /\ AllComponentsSaved) => Invoked("write_meta")
        /\ Has("write_meta", "ok") <=> metaFile.state = "written"
        /\ metaFile.state = "written" => NamesMatchSaved

C10_Witness ==
    /\ script = "export_to_coreml"
    /\ Done
    /\ metaFile.state = "written"
    /\ AllComponentsSaved

----------------------------------------------------------------------------
\* the try block that builds and loads the model of export_to_coreml.py returned
LoadSucceeded ==
    /\ Has("instantiate", "ok")
    /\ Has("load_checkpoint", "ok") \/ Has("load_checkpoint", "skipped")
    /\ Has("to_eval", "ok")

ExportSteps == {i \in DOMAIN log : log[i].k \in {"trace", "convert", "save", "write_meta"}}

\* the position of a step in the order image encoder, prompt encoder, mask
\* decoder, metadata file
ExportOrder(e) ==
    CASE e.k = "write_meta"      -> 4
      [] e.c = "image_encoder"   -> 1
      [] e.c = "prompt_encoder"  -> 2
      [] e.c = "mask_decoder"    -> 3
      [] OTHER                   -> 0

\* C13: in export_to_coreml.py no export starts unless the model load
\* succeeded, the exports run in the order image encoder, prompt encoder, mask
\* decoder, metadata file, each after the one before it was saved, and a step
\* that raises is the last one of the run, which exits with status 1: nothing
\* later is attempted and nothing is retried.
C13_ExportsInOrderStopAtFailure ==
    script = "export_to_coreml" =>
        /\ ExportSteps # {} => LoadSucceeded
        /\ \A i, j \in ExportSteps : i < j => ExportOrder(log[i]) <= ExportOrder(log[j])
        /\ \A j \in ExportSteps :
              \A c \in Components :
                 ExportOrder([k |-> "save", c |-> c]) < ExportOrder(log[j]) =>
                    \E i \in 1..(j - 1) : log[i] = [k |-> "save", c |-> c, r |-> "ok"]
        /\ \A i \in DOMAIN log :
              log[i].r = "exc" => (i = Len(log) /\ exitStatus = ExitFail)
        /\ \A i, j \in DOMAIN log :
              (log[i].k = log[j].k /\ log[i].c = log[j].c) => i = j

C13_Witness ==
    /\ script = "export_to_coreml"
    /\ exitStatus = ExitFail
    /\ LastIs("convert", "exc")
    /\ log[Len(log)].c = "prompt_encoder"
    /\ files = {OutputPath("export_to_coreml", "image_encoder")}

\* C14: in export_to_coreml.py no step removes a package saved earlier in the
\* run or the output directory, and a failing step leaves both as they were.
C14_NoRollback ==
    [][script = "export_to_coreml" =>
          /\ files \subseteq files'
          /\ dirs \subseteq dirs'
          /\ (exitStatus' \notin {Running, ExitOk} => (files' = files /\ dirs' = dirs))]_vars

C14_Witness ==
    /\ script = "export_to_coreml"
    /\ exitStatus = ExitFail
    /\ LastIs("save", "exc")
    /\ log[Len(log)].c = "mask_decoder"
    /\ dirs = {OutputDir}
    /\ files = {OutputPath("export_to_coreml", "image_encoder"),
                OutputPath("export_to_coreml", "prompt_encoder")}
    /\ metaFile.state = "absent"

\* the prompt returned an answer
Answered == Has("prompt", "ok") \/ Has("prompt", "declined")

\* C15: in convert_edgetam_checkpoint.py an answer other than 'y' or 'Y' ends
\* the run with exit status 0 before the checkpoint is tested or loaded and
\* before any model is loaded, converted or written; only 'y' or 'Y' lets the
\* run go on to the load step.
C15_DeclinedPromptExitsZero ==
    script = "convert_edgetam_checkpoint" =>
        /\ Has("prompt", "declined") <=> (Answered /\ response \notin {"y", "Y"})
        /\ Has("prompt", "declined") =>
              /\ exitStatus = ExitOk
              /\ LastIs("prompt", "declined")
              /\ ~Reached("check_exists") /\ ~Reached("getsize")
              /\ ~Invoked("load_pretrained")
              /\ NothingInvoked
        /\ Reached("check_exists") => (Has("prompt", "ok") /\ response \in {"y", "Y"})

C15_Witness ==
    /\ script = "convert_edgetam_checkpoint"
    /\ response = "yes"
    /\ Has("prompt", "declined")
    /\ exitStatus = ExitOk

HandlesInterrupt == script \in {"convert_edgetam_checkpoint", "quick_setup_model"}

\* C16 as stated: in convert_edgetam_checkpoint.py and quick_setup_model.py an
\* interrupt during any step ends the run there with exit status 1 and the
\* 'cancelled by user' message.
C16_InterruptExitsOne ==
    HandlesInterrupt =>
        \A i \in DOMAIN log :
            log[i].r = "int" =>
                /\ i = Len(log)
                /\ exitStatus = ExitFail
                /\ "cancelled by user" \in printed

\* C16 amended: an interrupt during any step run by main() ends the run there
\* with exit status 1 and the 'cancelled by user' message; an interrupt during
\* the imports at the top of the script ends the run uncaught, without the
\* message.
C16_InterruptInMainExitsOne ==
    HandlesInterrupt =>
        \A i \in DOMAIN log :
            log[i].r = "int" =>
                /\ i = Len(log)
                /\ IF log[i].k = "import"
                   THEN exitStatus = ExitSigint /\ "cancelled by user" \notin printed
                   ELSE exitStatus = ExitFail /\ "cancelled by user" \in printed

C16_Witness ==
    /\ script = "quick_setup_model"
    /\ LastIs("trace", "int")
    /\ exitStatus = ExitFail
    /\ "cancelled by user" \in printed

\* C17: the success banner is printed only in runs that saved every output
\* package, and it is the last step of the run, which ends with exit status 0.
C17_BannerOnlyAfterSave ==
    "completed successfully" \in printed =>
        /\ AllSaved
        /\ LastIs("banner", "ok")
        /\ exitStatus = ExitOk

C17_Witness ==
    /\ script = "convert_edgetam_to_coreml"
    /\ "completed successfully" \in printed
    /\ Has("verify", "exc")
    /\ files = {OutputPath(script, "model")}

----------------------------------------------------------------------------
CallsOf(fn) == {i \in DOMAIN calls : calls[i].fn = fn}

\* the multimask_output flag the underlying mask decoder was called with
RequestedMultimask(out) == out.masks.src[5] = "True"

\* C11: EdgeTAMMaskDecoder.forward asks the underlying decoder for multi-mask
\* output exactly when multimask_output[0] is above 0.5; at 0.5 or below masks
\* and iou_pred are cut to the first channel, above 0.5 they are returned as
\* the decoder produced them.
C11_MultimaskAboveHalf ==
    \A i \in CallsOf("mask_decoder") :
        LET in  == calls[i].in
            out == calls[i].out
            all == [n \in 1..in.nmasks |-> n]
        IN  /\ RequestedMultimask(out) <=> in.multimask_output > MultimaskThreshold
            /\ out.masks.src = out.iou_pred.src
            /\ IF in.multimask_output <= MultimaskThreshold
               THEN out.masks.channels = <<1>> /\ out.iou_pred.channels = <<1>>
               ELSE out.masks.channels = all /\ out.iou_pred.channels = all

C11_Witness ==
    \E i \in CallsOf("mask_decoder") :
        /\ calls[i].in.multimask_output = MultimaskThreshold
        /\ calls[i].in.nmasks = 3
        /\ calls[i].out.masks.channels = <<1>>

\* C12: EdgeTAMImageEncoder.forward returns three tensors: with three or more
\* feature levels, levels 0 and 1 unchanged and level 2, which only the
\* no-memory embedding alters, keeping its shape; with fewer levels or no
\* backbone_fpn key, zeros of shapes (bs,256,64,64), (bs,32,256,256) and
\* (bs,64,128,128).
C12_ThreeFeatureTensors ==
    \A i \in CallsOf("image_encoder") :
        LET in  == calls[i].in
            out == calls[i].out
            fpn == in.backbone_out.fpn
        IN  /\ Len(out) = 3
            /\ IF in.backbone_out.hasKey /\ Len(fpn) >= 3
               THEN /\ out[2] = fpn[1]
                    /\ out[3] = fpn[2]
                    /\ out[1].shape = fpn[3].shape
                    /\ out[1].data[2] = fpn[3].data[2]
                    /\ (out[1] # fpn[3]) <=> in.directly_add_no_mem_embed
               ELSE /\ out[1] = Tensor(<<in.bs, 256, 64, 64>>, <<"zeros", 0>>)
                    /\ out[2] = Tensor(<<in.bs, 32, 256, 256>>, <<"zeros", 0>>)
                    /\ out[3] = Tensor(<<in.bs, 64, 128, 128>>, <<"zeros", 0>>)

C12_Witness ==
    \E i \in CallsOf("image_encoder") :
        /\ Len(calls[i].in.backbone_out.fpn) = 3
        /\ calls[i].in.directly_add_no_mem_embed
        /\ calls[i].out[1].shape = <<2, 256, 64, 64>>
        /\ calls[i].out[1].data = <<"plus_no_mem_embed", 2>>

\* C18: the saved mask decoder package returns, for every input, what
\* EdgeTAMMaskDecoder.forward returns for it.
C18_PackageHonoursMultimask ==
    \A i \in CallsOf("mask_decoder") :
        \A j \in CallsOf("mask_decoder_package") :
            calls[i].in = calls[j].in => calls[i].out = calls[j].out

\* C19: two prompt encoder calls that differ only in boxes or mask_input
\* return the same embeddings, computed with boxes=None and masks=None, and
\* two mask decoder calls that differ only in image_pe return the same masks
\* and iou_pred, computed with the prompt encoder's dense positional encoding.
C19_UnusedInputsIgnored ==
    /\ \A i, j \in CallsOf("prompt_encoder") :
          ( /\ calls[i].in.point_coords = calls[j].in.point_coords
            /\ calls[i].in.point_labels = calls[j].in.point_labels )
          => calls[i].out = calls[j].out
    /\ \A i \in CallsOf("prompt_encoder") :
          /\ calls[i].out.sparse[4] = "None" /\ calls[i].out.sparse[5] = "None"
          /\ calls[i].out.dense[4] = "None" /\ calls[i].out.dense[5] = "None"
    /\ \A i, j \in CallsOf("mask_decoder") :
          [calls[i].in EXCEPT !.image_pe = "any"] = [calls[j].in EXCEPT !.image_pe = "any"]
          => calls[i].out = calls[j].out
    /\ \A i \in CallsOf("mask_decoder") : calls[i].out.masks.src[2] = DensePe

C19_Witness ==
    /\ \E i, j \in CallsOf("prompt_encoder") :
          /\ calls[i].in.boxes # calls[j].in.boxes
          /\ calls[i].in.mask_input # calls[j].in.mask_input
          /\ calls[i].in.point_coords = calls[j].in.point_coords
          /\ calls[i].out = calls[j].out
====
